---- MODULE Spec2Model ----
(***************************************************************************)
(* Model of the guitar scale finder's music-theory core                    *)
(* (src/fretboard_core.py, src/scales.py).                                 *)
(*                                                                         *)
(* A Python str is a sequence of characters; a character is a one-element  *)
(* TLA+ string ("C", "#", "b", " "), and the two Unicode accidental signs  *)
(* U+266D and U+266F are the characters "flat_sign" and "sharp_sign".      *)
(* Every function of the core is pure: Init draws a call (the function     *)
(* and its arguments) and one action per function applies it.              *)
(*                                                                         *)
(* The window of src/fretboard_gui.py is the second state machine          *)
(* (SpecGui): its widgets, its renderer, the plot on its canvas and its    *)
(* status bar, with one action per signal handler.  SpecFrets puts the     *)
(* window together with the two other places that fix a fret count, the    *)
(* renderer's constructor and the command line (src/fretboard_plot.py).    *)
(***************************************************************************)
EXTENDS Integers, Sequences, FiniteSets, TLC

VARIABLES
    pc,     \* "call": the call is pending; "done": it has returned or raised
    fn,     \* the function called
    args,   \* its arguments, a record
    ret,    \* its outcome: Ok(value) or Err(message of the ValueError)
    widgets,    \* FretboardApp: mode_combo, root_combo, notes_edit, deg_edit,
                \* scale_combo, use_flats_cb, frets_spin
    renderer,   \* FretboardApp.renderer: its num_frets and tuning
    plot,       \* what is drawn on FretboardApp.ax
    status      \* the message of the status bar

vars == <<pc, fn, args, ret, widgets, renderer, plot, status>>

(***************************************************************************)
(* Bounds of the model                                                     *)
(***************************************************************************)
MaxNoteLen == 3     \* characters of a raw note given to normalize_note
MaxNotes == 4       \* note tokens in the text given to parse_notes_text
MaxDegLen == 3      \* characters of a raw token given to parse_degree_token
MaxSteps == 5        \* steps of a step list given to generate_scale
MaxFrets == 13       \* frets of a drawn fretboard (the program allows up to 24)
MaxFretArg == 26     \* largest |num_frets| given to get_inlay_frets
MaxDegrees == 3     \* degree tokens in the text given to degrees_to_notes_text

(***************************************************************************)
(* Outcomes and strings                                                    *)
(***************************************************************************)
NoRet == [ok |-> FALSE, val |-> <<>>, err |-> "pending"]
Ok(v) == [ok |-> TRUE, val |-> v, err |-> ""]
Err(m) == [ok |-> FALSE, val |-> <<>>, err |-> m]
\* a ValueError whose message ends with the offending argument
ErrAbout(m, x) == [ok |-> FALSE, val |-> <<>>, err |-> m, about |-> x]

Range(s) == {s[i] : i \in DOMAIN s}
StringsUpTo(A, n) == UNION {[1..k -> A] : k \in 0..n}
ListsUpTo(A, n) == UNION {[1..k -> A] : k \in 0..n}

Whitespace == {" "}
Lowers == <<"a","b","c","d","e","f","g","h","i","j","k","l","m",
            "n","o","p","q","r","s","t","u","v","w","x","y","z">>
Uppers == <<"A","B","C","D","E","F","G","H","I","J","K","L","M",
            "N","O","P","Q","R","S","T","U","V","W","X","Y","Z">>
Digits == <<"0","1","2","3","4","5","6","7","8","9">>

\* str.upper / str.lower, one character
upper_char(c) ==
    IF c \in Range(Lowers) THEN Uppers[CHOOSE i \in DOMAIN Lowers : Lowers[i] = c] ELSE c
lower_char(c) ==
    IF c \in Range(Uppers) THEN Lowers[CHOOSE i \in DOMAIN Uppers : Uppers[i] = c] ELSE c
upper(s) == [i \in 1..Len(s) |-> upper_char(s[i])]
lower(s) == [i \in 1..Len(s) |-> lower_char(s[i])]

\* str.strip
RECURSIVE lstrip(_)
lstrip(s) == IF s # <<>> /\ Head(s) \in Whitespace THEN lstrip(Tail(s)) ELSE s
RECURSIVE rstrip(_)
rstrip(s) ==
    IF s # <<>> /\ s[Len(s)] \in Whitespace THEN rstrip(SubSeq(s, 1, Len(s) - 1)) ELSE s
strip(s) == rstrip(lstrip(s))

\* str.replace(old, new) for a one-character old; new is a string
RECURSIVE replace(_, _, _)
replace(s, old, new) ==
    IF s = <<>> THEN <<>>
    ELSE (IF Head(s) = old THEN new ELSE <<Head(s)>>) \o replace(Tail(s), old, new)

\* str.split() with no argument: the maximal runs of non-whitespace
RECURSIVE split_from(_, _)
split_from(s, cur) ==
    IF s = <<>> THEN (IF cur = <<>> THEN <<>> ELSE <<cur>>)
    ELSE IF Head(s) \in Whitespace
         THEN (IF cur = <<>> THEN <<>> ELSE <<cur>>) \o split_from(Tail(s), <<>>)
         ELSE split_from(Tail(s), Append(cur, Head(s)))
split(s) == split_from(s, <<>>)

\* " ".join-like construction of a text from tokens, used to draw inputs
RECURSIVE join(_, _)
join(toks, sep) ==
    IF toks = <<>> THEN <<>>
    ELSE IF Len(toks) = 1 THEN toks[1]
    ELSE toks[1] \o sep \o join(Tail(toks), sep)

(***************************************************************************)
(* The note tables                                                         *)
(***************************************************************************)
CHROMATIC_SHARPS ==
    << <<"C">>, <<"C","#">>, <<"D">>, <<"D","#">>, <<"E">>, <<"F">>,
       <<"F","#">>, <<"G">>, <<"G","#">>, <<"A">>, <<"A","#">>, <<"B">> >>
CHROMATIC_FLATS ==
    << <<"C">>, <<"D","b">>, <<"D">>, <<"E","b">>, <<"E">>, <<"F">>,
       <<"G","b">>, <<"G">>, <<"A","b">>, <<"A">>, <<"B","b">>, <<"B">> >>

SHARP_TO_FLAT_CSharpToEb ==
    (<<"C","#">> :> <<"E","b">>) @@ (<<"D","#">> :> <<"E","b">>) @@
    (<<"F","#">> :> <<"G","b">>) @@ (<<"G","#">> :> <<"A","b">>) @@
    (<<"A","#">> :> <<"B","b">>)
SHARP_TO_FLAT ==
    (<<"C","#">> :> <<"D","b">>) @@ (<<"D","#">> :> <<"E","b">>) @@
    (<<"F","#">> :> <<"G","b">>) @@ (<<"G","#">> :> <<"A","b">>) @@
    (<<"A","#">> :> <<"B","b">>)

FLAT_TO_SHARP_FbToF ==
    (<<"D","b">> :> <<"C","#">>) @@ (<<"E","b">> :> <<"D","#">>) @@
    (<<"F","b">> :> <<"F">>) @@ (<<"G","b">> :> <<"F","#">>) @@
    (<<"A","b">> :> <<"G","#">>) @@ (<<"B","b">> :> <<"A","#">>) @@
    (<<"C","b">> :> <<"B">>)
FLAT_TO_SHARP ==
    (<<"D","b">> :> <<"C","#">>) @@ (<<"E","b">> :> <<"D","#">>) @@
    (<<"F","b">> :> <<"E">>) @@ (<<"G","b">> :> <<"F","#">>) @@
    (<<"A","b">> :> <<"G","#">>) @@ (<<"B","b">> :> <<"A","#">>) @@
    (<<"C","b">> :> <<"B">>)
ENHARMONIC == (<<"B","#">> :> <<"C">>) @@ (<<"E","#">> :> <<"F">>)

\* enumerate() counts from 0; a TLA+ sequence from 1
NOTE_TO_INDEX_SHARPS ==
    [n \in Range(CHROMATIC_SHARPS) |-> (CHOOSE i \in 1..12 : CHROMATIC_SHARPS[i] = n) - 1]
NOTE_TO_INDEX_FLATS ==
    [n \in Range(CHROMATIC_FLATS) |-> (CHOOSE i \in 1..12 : CHROMATIC_FLATS[i] = n) - 1]

DEGREE_BASE_OFFSETS == (1 :> 0) @@ (2 :> 2) @@ (3 :> 4) @@ (4 :> 5) @@ (5 :> 7) @@
                       (6 :> 9) @@ (7 :> 11)

(***************************************************************************)
(* normalize_note                                                          *)
(***************************************************************************)
\* note.strip().upper().replace(" ", "")
clean_note(note) == replace(upper(strip(note)), " ", <<>>)

\* the letter and its accidental marker; n is not empty
letter_accidental_KeepsUpperB(n) ==
    IF Len(n) >= 2 /\ n[2] \in {"#", "B"}
    THEN <<n[1], n[2]>>
    ELSE <<n[1]>>
letter_accidental(n) ==
    IF Len(n) >= 2 /\ n[2] \in {"#", "B"}
    THEN (IF n[2] = "B" THEN <<n[1], "b">> ELSE <<n[1], "#">>)
    ELSE <<n[1]>>

\* the sharp spelling of a letter with its accidental
sharp_spelling(n) ==
    LET n1 == IF n \in DOMAIN FLAT_TO_SHARP THEN FLAT_TO_SHARP[n] ELSE n
    IN  IF n1 \in DOMAIN ENHARMONIC THEN ENHARMONIC[n1] ELSE n1

\* the returned spelling of a sharp-spelled note
output_spelling(n, use_flats) ==
    IF use_flats /\ n \in DOMAIN SHARP_TO_FLAT THEN SHARP_TO_FLAT[n] ELSE n

normalize_note(note, use_flats) ==
    LET n == clean_note(note) IN
    IF n = <<>> THEN Err("Empty note")
    ELSE LET s == sharp_spelling(letter_accidental(n)) IN
         IF s \notin DOMAIN NOTE_TO_INDEX_SHARPS THEN ErrAbout("Unsupported note", note)
         ELSE Ok(output_spelling(s, use_flats))

(***************************************************************************)
(* parse_notes_text, unique_preserve_order                                 *)
(***************************************************************************)
\* [x for x in text.replace(",", " ").split() if x.strip()]
raw_tokens(text) == SelectSeq(split(replace(text, ",", <<" ">>)), LAMBDA x : strip(x) # <<>>)

\* a list comprehension over a function that may raise: the first error
\* aborts it, and no list is returned
RECURSIVE normalize_all_SkipsInvalid(_, _, _)
normalize_all_SkipsInvalid(raw, use_flats, out) ==
    IF raw = <<>> THEN Ok(out)
    ELSE LET r == normalize_note(Head(raw), use_flats) IN
         normalize_all_SkipsInvalid(Tail(raw), use_flats,
                                    IF r.ok THEN Append(out, r.val) ELSE out)
RECURSIVE normalize_all(_, _, _)
normalize_all(raw, use_flats, out) ==
    IF raw = <<>> THEN Ok(out)
    ELSE LET r == normalize_note(Head(raw), use_flats) IN
         IF r.ok THEN normalize_all(Tail(raw), use_flats, Append(out, r.val)) ELSE r

parse_notes_text(text, use_flats) == normalize_all(raw_tokens(text), use_flats, <<>>)

RECURSIVE unique_from(_, _, _)
unique_from(items, seen, out) ==
    IF items = <<>> THEN out
    ELSE IF Head(items) \in seen THEN unique_from(Tail(items), seen, out)
    ELSE unique_from(Tail(items), seen \cup {Head(items)}, Append(out, Head(items)))
unique_preserve_order(items) == unique_from(items, {}, <<>>)

(***************************************************************************)
(* parse_degree_token                                                      *)
(***************************************************************************)
is_acc(ch) == ch \in {"b", "#", "x"}
isdigit(ch) == ch \in Range(Digits)

\* while i < n and is_acc(t[i]): i += 1   (i counts from 1 here)
skip_acc_AtMostOne(t, i) == IF i <= Len(t) /\ is_acc(t[i]) THEN i + 1 ELSE i
RECURSIVE skip_acc(_, _)
skip_acc(t, i) == IF i <= Len(t) /\ is_acc(t[i]) THEN skip_acc(t, i + 1) ELSE i
\* while j < n and t[j].isdigit(): j += 1
RECURSIVE skip_digits(_, _)
skip_digits(t, j) == IF j <= Len(t) /\ isdigit(t[j]) THEN skip_digits(t, j + 1) ELSE j

\* int(num_str) of a non-empty run of decimal digits
digit_value(ch) == (CHOOSE i \in DOMAIN Digits : Digits[i] = ch) - 1
RECURSIVE int(_)
int(s) ==
    IF s = <<>> THEN 0
    ELSE 10 * int(SubSeq(s, 1, Len(s) - 1)) + digit_value(s[Len(s)])

\* the shift one accidental character adds
acc_shift_XIsOne(ch) ==
    IF ch = "b" THEN -1 ELSE IF ch = "#" THEN 1 ELSE IF ch = "x" THEN 1 ELSE 0
acc_shift(ch) ==
    IF ch = "b" THEN -1 ELSE IF ch = "#" THEN 1 ELSE IF ch = "x" THEN 2 ELSE 0
RECURSIVE shift_of(_)
shift_of(acc) == IF acc = <<>> THEN 0 ELSE acc_shift(Head(acc)) + shift_of(Tail(acc))

\* t.replace(flat sign, "b").replace(sharp sign, "#")
ascii_accidentals_FlatOnly(t) == replace(t, "flat_sign", <<"b">>)
ascii_accidentals(t) == replace(replace(t, "flat_sign", <<"b">>), "sharp_sign", <<"#">>)

parse_degree_token(token) ==
    LET t0 == strip(token) IN
    IF t0 = <<>> THEN Err("Empty degree token")
    ELSE LET t == ascii_accidentals(t0) IN
         IF lower(t) \in { <<"r">>, <<"r","o","o","t">> } THEN Ok(<<1, 0>>)
         ELSE LET i == skip_acc(t, 1) IN
              IF i > Len(t) \/ ~isdigit(t[i]) THEN ErrAbout("Invalid degree token", token)
              ELSE LET j == skip_digits(t, i)
                       k == skip_acc(t, j)
                   IN  IF k # Len(t) + 1 THEN ErrAbout("Invalid degree token", token)
                       ELSE Ok(<< int(SubSeq(t, i, j - 1)),
                                  shift_of(SubSeq(t, 1, i - 1) \o SubSeq(t, j, k - 1)) >>)

(***************************************************************************)
(* degrees_to_notes_text                                                   *)
(***************************************************************************)
deg_base_OffByOne(deg) == (deg % 7) + 1
deg_base(deg) == ((deg - 1) % 7) + 1

\* the loop over the tokens: the first token that does not parse aborts it
RECURSIVE degree_notes(_, _, _, _)
degree_notes(raw, root_idx, chromatic, notes) ==
    IF raw = <<>> THEN Ok(notes)
    ELSE LET p == parse_degree_token(Head(raw)) IN
         IF ~p.ok THEN p
         ELSE LET base_offset == DEGREE_BASE_OFFSETS[deg_base(p.val[1])]
                  offset == (base_offset + p.val[2]) % 12
              IN  degree_notes(Tail(raw), root_idx, chromatic,
                               Append(notes, chromatic[((root_idx + offset) % 12) + 1]))

degrees_to_notes_text_RootFirst(text, root, use_flats) ==
    LET raw == raw_tokens(text)
        chromatic == IF use_flats THEN CHROMATIC_FLATS ELSE CHROMATIC_SHARPS
        note_to_index == IF use_flats THEN NOTE_TO_INDEX_FLATS ELSE NOTE_TO_INDEX_SHARPS
        root_n == normalize_note(root, use_flats)
    IN  IF ~root_n.ok THEN root_n
        ELSE IF raw = <<>> THEN Err("No degree tokens provided")
        ELSE LET r == degree_notes(raw, note_to_index[root_n.val], chromatic, <<>>)
             IN  IF r.ok THEN Ok(unique_preserve_order(r.val)) ELSE r
degrees_to_notes_text(text, root, use_flats) ==
    LET raw == raw_tokens(text) IN
    IF raw = <<>> THEN Err("No degree tokens provided")
    ELSE LET chromatic == IF use_flats THEN CHROMATIC_FLATS ELSE CHROMATIC_SHARPS
             note_to_index == IF use_flats THEN NOTE_TO_INDEX_FLATS ELSE NOTE_TO_INDEX_SHARPS
             root_n == normalize_note(root, use_flats)
         IN  IF ~root_n.ok THEN root_n
             ELSE LET r == degree_notes(raw, note_to_index[root_n.val], chromatic, <<>>)
                  IN  IF r.ok THEN Ok(unique_preserve_order(r.val)) ELSE r

(***************************************************************************)
(* generate_scale and the scale table of scales.py                         *)
(***************************************************************************)
SCALE_MODES_BluesTypo ==
    ("ionian_major" :> <<2, 2, 1, 2, 2, 2, 1>>) @@
    ("dorian" :> <<2, 1, 2, 2, 2, 1, 2>>) @@
    ("phrygian" :> <<1, 2, 2, 2, 1, 2, 2>>) @@
    ("lydian" :> <<2, 2, 2, 1, 2, 2, 1>>) @@
    ("mixolydian" :> <<2, 2, 1, 2, 2, 1, 2>>) @@
    ("aeolian_natural_minor" :> <<2, 1, 2, 2, 1, 2, 2>>) @@
    ("locrian" :> <<1, 2, 2, 1, 2, 2, 2>>) @@
    ("harmonic_minor" :> <<2, 1, 2, 2, 1, 3, 1>>) @@
    ("melodic_minor" :> <<2, 1, 2, 2, 2, 2, 1>>) @@
    ("harmonic_minor_mode2_locrian_nat6" :> <<1, 2, 1, 2, 2, 1, 3>>) @@
    ("harmonic_minor_mode3_ionian_aug" :> <<2, 1, 2, 2, 1, 3, 1>>) @@
    ("harmonic_minor_mode4_dorian_4" :> <<2, 2, 1, 2, 1, 3, 1>>) @@
    ("harmonic_minor_mode5_phrygian_dom" :> <<1, 3, 1, 2, 1, 2, 2>>) @@
    ("harmonic_minor_mode6_lydian_2" :> <<3, 1, 2, 1, 2, 2, 1>>) @@
    ("harmonic_minor_mode7_superlocrian_bb7" :> <<1, 2, 1, 2, 2, 1, 3>>) @@
    ("dorian_b2" :> <<1, 2, 2, 2, 2, 1, 2>>) @@
    ("lydian_aug" :> <<2, 2, 2, 2, 1, 2, 1>>) @@
    ("lydian_dom" :> <<2, 2, 2, 1, 2, 1, 2>>) @@
    ("mixolydian_b6" :> <<2, 2, 1, 2, 1, 2, 2>>) @@
    ("locrian_nat2" :> <<2, 1, 2, 1, 2, 2, 2>>) @@
    ("altered_superlocrian" :> <<1, 2, 1, 2, 2, 2, 2>>) @@
    ("pentatonic_major" :> <<2, 2, 3, 2, 3>>) @@
    ("pentatonic_minor" :> <<3, 2, 2, 3, 2>>) @@
    ("egyptian_pentatonic" :> <<2, 3, 2, 3, 2>>) @@
    ("hirajoshi" :> <<2, 1, 4, 1, 4>>) @@
    ("iwato" :> <<1, 4, 1, 4, 2>>) @@
    ("kumoi" :> <<2, 1, 4, 2, 3>>) @@
    ("insen" :> <<1, 4, 2, 3, 2>>) @@
    ("yo" :> <<2, 3, 2, 2, 3>>) @@
    ("blues" :> <<3, 2, 1, 1, 3, 3>>) @@
    ("whole_tone" :> <<2, 2, 2, 2, 2, 2>>) @@
    ("augmented_hexatonic" :> <<3, 1, 3, 1, 3, 1>>) @@
    ("prometheus" :> <<2, 2, 2, 3, 1, 2>>) @@
    ("tritone_scale" :> <<1, 2, 1, 2, 1, 2, 3>>) @@
    ("diminished_hw" :> <<1, 2, 1, 2, 1, 2, 1, 2>>) @@
    ("diminished_wh" :> <<2, 1, 2, 1, 2, 1, 2, 1>>) @@
    ("hungarian_minor" :> <<2, 1, 3, 1, 1, 3, 1>>) @@
    ("double_harmonic_major" :> <<1, 3, 1, 2, 1, 3, 1>>) @@
    ("neapolitan_minor" :> <<1, 2, 2, 2, 1, 3, 1>>) @@
    ("neapolitan_major" :> <<1, 2, 2, 2, 2, 2, 1>>) @@
    ("enigmatic" :> <<1, 3, 2, 2, 2, 1, 1>>) @@
    ("persian" :> <<1, 3, 1, 1, 2, 3, 1>>) @@
    ("romanian_minor" :> <<2, 1, 3, 1, 2, 1, 2>>) @@
    ("ukrainian_dorian" :> <<2, 1, 3, 1, 2, 1, 2>>) @@
    ("spanish_gypsy" :> <<1, 3, 1, 2, 1, 2, 2>>) @@
    ("chromatic" :> <<1, 1, 1, 1, 1, 1, 1, 1, 1, 1, 1, 1>>)
SCALE_MODES ==
    ("ionian_major" :> <<2, 2, 1, 2, 2, 2, 1>>) @@
    ("dorian" :> <<2, 1, 2, 2, 2, 1, 2>>) @@
    ("phrygian" :> <<1, 2, 2, 2, 1, 2, 2>>) @@
    ("lydian" :> <<2, 2, 2, 1, 2, 2, 1>>) @@
    ("mixolydian" :> <<2, 2, 1, 2, 2, 1, 2>>) @@
    ("aeolian_natural_minor" :> <<2, 1, 2, 2, 1, 2, 2>>) @@
    ("locrian" :> <<1, 2, 2, 1, 2, 2, 2>>) @@
    ("harmonic_minor" :> <<2, 1, 2, 2, 1, 3, 1>>) @@
    ("melodic_minor" :> <<2, 1, 2, 2, 2, 2, 1>>) @@
    ("harmonic_minor_mode2_locrian_nat6" :> <<1, 2, 1, 2, 2, 1, 3>>) @@
    ("harmonic_minor_mode3_ionian_aug" :> <<2, 1, 2, 2, 1, 3, 1>>) @@
    ("harmonic_minor_mode4_dorian_4" :> <<2, 2, 1, 2, 1, 3, 1>>) @@
    ("harmonic_minor_mode5_phrygian_dom" :> <<1, 3, 1, 2, 1, 2, 2>>) @@
    ("harmonic_minor_mode6_lydian_2" :> <<3, 1, 2, 1, 2, 2, 1>>) @@
    ("harmonic_minor_mode7_superlocrian_bb7" :> <<1, 2, 1, 2, 2, 1, 3>>) @@
    ("dorian_b2" :> <<1, 2, 2, 2, 2, 1, 2>>) @@
    ("lydian_aug" :> <<2, 2, 2, 2, 1, 2, 1>>) @@
    ("lydian_dom" :> <<2, 2, 2, 1, 2, 1, 2>>) @@
    ("mixolydian_b6" :> <<2, 2, 1, 2, 1, 2, 2>>) @@
    ("locrian_nat2" :> <<2, 1, 2, 1, 2, 2, 2>>) @@
    ("altered_superlocrian" :> <<1, 2, 1, 2, 2, 2, 2>>) @@
    ("pentatonic_major" :> <<2, 2, 3, 2, 3>>) @@
    ("pentatonic_minor" :> <<3, 2, 2, 3, 2>>) @@
    ("egyptian_pentatonic" :> <<2, 3, 2, 3, 2>>) @@
    ("hirajoshi" :> <<2, 1, 4, 1, 4>>) @@
    ("iwato" :> <<1, 4, 1, 4, 2>>) @@
    ("kumoi" :> <<2, 1, 4, 2, 3>>) @@
    ("insen" :> <<1, 4, 2, 3, 2>>) @@
    ("yo" :> <<2, 3, 2, 2, 3>>) @@
    ("blues" :> <<3, 2, 1, 1, 3, 2>>) @@
    ("whole_tone" :> <<2, 2, 2, 2, 2, 2>>) @@
    ("augmented_hexatonic" :> <<3, 1, 3, 1, 3, 1>>) @@
    ("prometheus" :> <<2, 2, 2, 3, 1, 2>>) @@
    ("tritone_scale" :> <<1, 2, 1, 2, 1, 2, 3>>) @@
    ("diminished_hw" :> <<1, 2, 1, 2, 1, 2, 1, 2>>) @@
    ("diminished_wh" :> <<2, 1, 2, 1, 2, 1, 2, 1>>) @@
    ("hungarian_minor" :> <<2, 1, 3, 1, 1, 3, 1>>) @@
    ("double_harmonic_major" :> <<1, 3, 1, 2, 1, 3, 1>>) @@
    ("neapolitan_minor" :> <<1, 2, 2, 2, 1, 3, 1>>) @@
    ("neapolitan_major" :> <<1, 2, 2, 2, 2, 2, 1>>) @@
    ("enigmatic" :> <<1, 3, 2, 2, 2, 1, 1>>) @@
    ("persian" :> <<1, 3, 1, 1, 2, 3, 1>>) @@
    ("romanian_minor" :> <<2, 1, 3, 1, 2, 1, 2>>) @@
    ("ukrainian_dorian" :> <<2, 1, 3, 1, 2, 1, 2>>) @@
    ("spanish_gypsy" :> <<1, 3, 1, 2, 1, 2, 2>>) @@
    ("chromatic" :> <<1, 1, 1, 1, 1, 1, 1, 1, 1, 1, 1, 1>>)

RECURSIVE walk_steps_NoAccumulate(_, _, _)
walk_steps_NoAccumulate(steps, idx, notes) ==
    IF steps = <<>> THEN notes
    ELSE LET nxt == (idx + Head(steps)) % 12
         IN  walk_steps_NoAccumulate(Tail(steps), idx, Append(notes, CHROMATIC_SHARPS[nxt + 1]))
\* for step in steps: idx = (idx + step) % 12; notes.append(CHROMATIC_SHARPS[idx])
RECURSIVE walk_steps(_, _, _)
walk_steps(steps, idx, notes) ==
    IF steps = <<>> THEN notes
    ELSE LET nxt == (idx + Head(steps)) % 12
         IN  walk_steps(Tail(steps), nxt, Append(notes, CHROMATIC_SHARPS[nxt + 1]))

\* [SHARP_TO_FLAT.get(n, n) for n in notes]
flat_names(notes) ==
    [i \in 1..Len(notes) |->
        IF notes[i] \in DOMAIN SHARP_TO_FLAT THEN SHARP_TO_FLAT[notes[i]] ELSE notes[i]]

generate_scale_RootFirst(root, mode, scale_modes, use_flats) ==
    LET root_n == normalize_note(root, FALSE) IN
    IF ~root_n.ok THEN root_n
    ELSE IF mode \notin DOMAIN scale_modes THEN ErrAbout("Unsupported mode", mode)
    ELSE LET steps == scale_modes[mode]
             walked == walk_steps(steps, NOTE_TO_INDEX_SHARPS[root_n.val], <<root_n.val>>)
             notes == IF Len(steps) \in {5, 6, 7, 8, 12}
                      THEN SubSeq(walked, 1, Len(walked) - 1)
                      ELSE walked
         IN  Ok(unique_preserve_order(IF use_flats THEN flat_names(notes) ELSE notes))
generate_scale(root, mode, scale_modes, use_flats) ==
    IF mode \notin DOMAIN scale_modes THEN ErrAbout("Unsupported mode", mode)
    ELSE LET root_n == normalize_note(root, FALSE) IN
         IF ~root_n.ok THEN root_n
         ELSE LET steps == scale_modes[mode]
                  walked == walk_steps(steps, NOTE_TO_INDEX_SHARPS[root_n.val], <<root_n.val>>)
                  notes == IF Len(steps) \in {5, 6, 7, 8, 12}
                           THEN SubSeq(walked, 1, Len(walked) - 1)
                           ELSE walked
              IN  Ok(unique_preserve_order(IF use_flats THEN flat_names(notes) ELSE notes))

(***************************************************************************)
(* fretboard_plot.py, the command line: its own SCALE_MODES and            *)
(* generate_scale.  Its normalize_note and its note tables are the same    *)
(* text as the core's, so the core's definitions stand for them.           *)
(***************************************************************************)
plot_SCALE_MODES ==
    ("major" :> <<2, 2, 1, 2, 2, 2, 1>>) @@
    ("minor" :> <<2, 1, 2, 2, 1, 2, 2>>) @@
    ("pentatonic_major" :> <<2, 2, 3, 2, 3>>) @@
    ("pentatonic_minor" :> <<3, 2, 2, 3, 2>>) @@
    ("blues" :> <<3, 2, 1, 1, 3, 2>>)

\* the keys, in the order of the table (list(SCALE_MODES.keys()))
plot_SCALE_MODE_KEYS == <<"major", "minor", "pentatonic_major", "pentatonic_minor", "blues">>

\* mode.startswith("pentatonic"), over the names the model gives as mode
startswith_pentatonic(mode) == mode \in {"pentatonic", "pentatonic_major", "pentatonic_minor"}

plot_generate_scale(root, mode, use_flats) ==
    IF mode \notin DOMAIN plot_SCALE_MODES
    THEN ErrAbout("Unsupported mode", [mode |-> mode, available |-> plot_SCALE_MODE_KEYS])
    ELSE LET root_n == normalize_note(root, FALSE) IN
         IF ~root_n.ok THEN root_n
         ELSE LET intervals == plot_SCALE_MODES[mode]
                  walked == walk_steps(intervals, NOTE_TO_INDEX_SHARPS[root_n.val],
                                       <<root_n.val>>)
                  notes == IF startswith_pentatonic(mode)
                           THEN SubSeq(walked, 1, Len(walked) - 1)
                           ELSE walked
              IN  Ok(IF use_flats THEN flat_names(notes) ELSE notes)

(***************************************************************************)
(* get_inlay_frets, FretboardRenderer.draw                                 *)
(***************************************************************************)
DEFAULT_TUNING == << <<"E">>, <<"A">>, <<"D">>, <<"G">>, <<"B">>, <<"E">> >>
INLAY_BASE == <<3, 5, 7, 9, 12, 15, 17, 19, 21, 24>>

get_inlay_frets_Below(num_frets) == SelectSeq(INLAY_BASE, LAMBDA f : f < num_frets)
get_inlay_frets(num_frets) == SelectSeq(INLAY_BASE, LAMBDA f : f <= num_frets)

max(a, b) == IF a >= b THEN a ELSE b
min(a, b) == IF a <= b THEN a ELSE b

RENDERER_MIN_FRETS == 1      \* self.num_frets = int(max(1, min(num_frets, 24)))
RENDERER_MAX_FRETS == 24
CLI_MIN_FRETS == 1           \* num_frets = max(1, min(int(args.frets), 24))
CLI_MAX_FRETS == 24

\* FretboardRenderer.__init__: the fret count is clamped, a missing or
\* empty tuning is the default one
FretboardRenderer_NoClamp(num_frets, tuning) ==
    [num_frets |-> num_frets,
     tuning |-> IF tuning # <<>> THEN tuning ELSE DEFAULT_TUNING]
FretboardRenderer(num_frets, tuning) ==
    [num_frets |-> max(RENDERER_MIN_FRETS, min(num_frets, RENDERER_MAX_FRETS)),
     tuning |-> IF tuning # <<>> THEN tuning ELSE DEFAULT_TUNING]

\* fretboard_plot.main: the fret count it hands to plot_fretboard, and with
\* it to fret_positions_equal_temperament and get_inlay_frets
main_num_frets(frets) == max(CLI_MIN_FRETS, min(frets, CLI_MAX_FRETS))

\* the markers of one string: for each fret 0..num_frets whose name is in
\* scale_set, a marker, a root marker when the name equals root
string_markers(si, open_note, num_frets, scale_set, root, use_flats) ==
    LET chromatic == IF use_flats THEN CHROMATIC_FLATS ELSE CHROMATIC_SHARPS
        note_to_index == IF use_flats THEN NOTE_TO_INDEX_FLATS ELSE NOTE_TO_INDEX_SHARPS
        open_idx == note_to_index[open_note]
        name(f) == chromatic[((open_idx + f) % 12) + 1]
    IN  { [string |-> si, fret |-> f, name |-> name(f), is_root |-> (name(f) = root)] :
            f \in {g \in 0..num_frets : name(g) \in scale_set} }

\* what draw puts on the axes it has cleared: the fret count, the inlays,
\* the string labels, the note markers and the title; the tuning is
\* normalized after ax.clear(), so a tuning that does not normalize raises
\* and leaves the axes blank
draw(tuning, num_frets, scale_notes, root, use_flats) ==
    LET root_ == IF root # <<>> THEN root
                 ELSE IF scale_notes # <<>> THEN scale_notes[1] ELSE <<"C">>
        tuning_n == normalize_all(tuning, use_flats, <<>>)
    IN  IF ~tuning_n.ok THEN tuning_n
        ELSE Ok([num_frets |-> num_frets,
                 inlays |-> get_inlay_frets(num_frets),
                 labels |-> tuning_n.val,
                 markers |->
                    IF scale_notes = <<>> THEN {}
                    ELSE UNION { string_markers(si, tuning_n.val[si + 1], num_frets,
                                                Range(scale_notes), root_, use_flats) :
                                    si \in 0..(Len(tuning_n.val) - 1) },
                 title |-> IF scale_notes = <<>> THEN <<"Fretboard", num_frets>>
                           ELSE <<"Notes", scale_notes, root_>>])

(***************************************************************************)
(* FretboardApp._compute_notes and the body of on_run, Notes mode          *)
(***************************************************************************)
\* root_combo.currentText().strip(), "C" when empty
get_root(root_text) == IF strip(root_text) = <<>> THEN <<"C">> ELSE strip(root_text)

compute_notes_Notes_RawRoot(notes_text, root_text, use_flats) ==
    LET root == get_root(root_text)
        text == strip(notes_text)
        notes == IF text # <<>> THEN parse_notes_text(text, use_flats) ELSE Ok(<<>>)
        root_n == normalize_note(root, use_flats)
    IN  IF ~notes.ok THEN notes
        ELSE IF ~root_n.ok THEN root_n
        ELSE Ok([notes |-> notes.val, root |-> root])
compute_notes_Notes(notes_text, root_text, use_flats) ==
    LET root == get_root(root_text)
        text == strip(notes_text)
        notes == IF text # <<>> THEN parse_notes_text(text, use_flats) ELSE Ok(<<>>)
        root_n == normalize_note(root, use_flats)
    IN  IF ~notes.ok THEN notes
        ELSE IF ~root_n.ok THEN root_n
        ELSE Ok([notes |-> notes.val, root |-> root_n.val])

\* notes, root = self._compute_notes(); self.renderer.draw(...), on a
\* renderer with the given tuning and fret count
run_notes(tuning, num_frets, notes_text, root_text, use_flats) ==
    LET c == compute_notes_Notes(notes_text, root_text, use_flats)
    IN  IF ~c.ok THEN c ELSE draw(tuning, num_frets, c.val.notes, c.val.root, use_flats)

(***************************************************************************)
(* FretboardApp: _compute_notes in its three modes, on_run, on_clear       *)
(***************************************************************************)
GUI_NUM_FRETS == 24      \* FretboardRenderer(num_frets=24, ...), frets_spin.setValue(24)
FRETS_SPIN_MIN == 1      \* frets_spin.setRange(1, 24)
FRETS_SPIN_MAX == 24

compute_notes_Degrees(deg_text, root_text, use_flats) ==
    LET root == get_root(root_text)
        text == strip(deg_text)
        notes == degrees_to_notes_text(text, root, use_flats)
        root_n == normalize_note(root, use_flats)
    IN  IF text = <<>>
        THEN IF ~root_n.ok THEN root_n ELSE Ok([notes |-> <<>>, root |-> root_n.val])
        ELSE IF ~notes.ok THEN notes
        ELSE IF ~root_n.ok THEN root_n
        ELSE Ok([notes |-> notes.val, root |-> root_n.val])

\* scale_key is scale_display_to_key[scale_combo.currentText()]; the combo
\* is not editable and lists one display name per key of SCALE_MODES
compute_notes_Scale(scale_key, root_text, use_flats) ==
    LET root == get_root(root_text)
        root_n == normalize_note(root, use_flats)
        notes == generate_scale(root_n.val, scale_key, SCALE_MODES, use_flats)
    IN  IF ~root_n.ok THEN root_n
        ELSE IF ~notes.ok THEN notes
        ELSE Ok([notes |-> notes.val, root |-> root_n.val])

compute_notes(w) ==
    IF w.mode = "Notes" THEN compute_notes_Notes(w.notes, w.root, w.use_flats)
    ELSE IF w.mode = "Degrees" THEN compute_notes_Degrees(w.degrees, w.root, w.use_flats)
    ELSE compute_notes_Scale(w.scale, w.root, w.use_flats)

\* the axes after ax.clear() and nothing else
BLANK_AXES ==
    [num_frets |-> 0, inlays |-> <<>>, labels |-> <<>>, markers |-> {}, title |-> <<>>]

\* the status bar: showMessage("Ready"), "Cleared", "Plotted {n} notes.
\* Root: {root}", "No notes provided. ...", "Error: {e}"
Message(kind, n, root, e) ==
    [kind |-> kind, notes |-> n, root |-> root, error |-> e.err,
     about |-> IF "about" \in DOMAIN e THEN e.about ELSE <<>>]
STATUS_READY == Message("Ready", 0, <<>>, Ok(<<>>))
STATUS_CLEARED == Message("Cleared", 0, <<>>, Ok(<<>>))

\* what renderer.draw leaves on the axes: the drawing, or the blank axes
\* when it raises after ax.clear()
axes_after_draw(d) == IF d.ok THEN d.val ELSE BLANK_AXES

\* on_run after _compute_notes has returned notes and root: draw, then the
\* status message
run_drawn(c, d) ==
    IF ~d.ok THEN [plot |-> BLANK_AXES, status |-> Message("Error", 0, <<>>, d)]
    ELSE IF c.val.notes # <<>>
    THEN [plot |-> d.val,
          status |-> Message("Plotted", Len(c.val.notes), c.val.root, Ok(<<>>))]
    ELSE [plot |-> d.val, status |-> Message("No notes", 0, <<>>, Ok(<<>>))]

\* on_run once _compute_notes has returned or raised c: the plot and the
\* status it leaves, from the widgets w, the renderer r and the plot p
\* shown before
run_computed(c, w, r, p) ==
    IF ~c.ok THEN [plot |-> p, status |-> Message("Error", 0, <<>>, c)]
    ELSE run_drawn(c, draw(r.tuning, r.num_frets, c.val.notes, c.val.root, w.use_flats))

on_run_ClearFirst(w, r, p) == run_computed(compute_notes(w), w, r, BLANK_AXES)
on_run(w, r, p) == run_computed(compute_notes(w), w, r, p)

\* on_clear draws the empty fretboard, root "C"
on_clear(w, r) == axes_after_draw(draw(r.tuning, r.num_frets, <<>>, <<"C">>, w.use_flats))

\* _sync_root_choices refills the root combo and puts back its stripped
\* text; with no text the combo shows its first item, "C"
sync_root_choices(root_text) ==
    IF strip(root_text) = <<>> THEN <<"C">> ELSE strip(root_text)

\* the window as __init__ leaves it
INITIAL_WIDGETS ==
    [mode |-> "Notes", root |-> <<"C">>, notes |-> <<>>, degrees |-> <<>>,
     scale |-> "aeolian_natural_minor", use_flats |-> FALSE, frets |-> GUI_NUM_FRETS]
\* FretboardRenderer(num_frets=24, ...) with no tuning given
INITIAL_RENDERER == FretboardRenderer(GUI_NUM_FRETS, <<>>)

\* the value frets_spin takes when v is asked of it: setRange(1, 24) keeps
\* it within the range
frets_spin_value(v) == max(FRETS_SPIN_MIN, min(v, FRETS_SPIN_MAX))

(***************************************************************************)
(* The calls the model draws                                               *)
(***************************************************************************)
NoteChars == {"A","B","C","D","E","F","G","H","b","c","#","x"," "}
NoteInputs == StringsUpTo(NoteChars, MaxNoteLen)

Separators == { <<" ">>, <<",", " ">> }
NoteTokens == { <<"C">>, <<"E">>, <<"G">>, <<"D","b">>, <<"c","#">>, <<"H">>, <<"X">> }
NoteTexts == {join(toks, sep) : toks \in ListsUpTo(NoteTokens, MaxNotes), sep \in Separators}

DegChars == {"b","#","x","0","1","3","4","r","R","B","q"," ","flat_sign","sharp_sign"}
RootWords == { <<"r","o","o","t">>, <<"R","o","O","T">>, <<"r","o","o","t","s">>,
               <<"1","3","b","b">>, <<"b","b","1","0">> }
DegInputs == StringsUpTo(DegChars, MaxDegLen) \cup RootWords

Roots == Range(CHROMATIC_SHARPS) \cup Range(CHROMATIC_FLATS)
         \cup { <<"F","b">>, <<"C","b">>, <<"B","#">>, <<"E","#">>, <<"e","b">>, <<"H">>, <<>> }
\* the roots given with a degree text or a step list: low and high classes,
\* both spellings, an enharmonic, a lower-case, an invalid and an empty root
DegRoots == { <<"C">>, <<"D","b">>, <<"F","#">>, <<"A">>, <<"B">>, <<"B","#">>, <<"e","b">>,
              <<"H">>, <<>> }
DegTokens == { <<"1">>, <<"b","3">>, <<"5">>, <<"2">>, <<"9">>, <<"b","1">>, <<"0">>, <<"3","q">>,
               <<"q">> }
BlankTexts == { <<" ">>, <<",">>, <<",", " ", ",">> }
DegTexts == {join(toks, <<" ">>) : toks \in ListsUpTo(DegTokens, MaxDegrees)}
            \cup {join(toks, <<",", " ">>) : toks \in ListsUpTo(DegTokens, 2)}
            \cup BlankTexts
Modes == DOMAIN SCALE_MODES \cup {"nonexistent", "major", "Dorian", ""}

StepChoices == {2, 3, 6}
StepTables == {("custom" :> steps) : steps \in ListsUpTo(StepChoices, MaxSteps)}

Tunings == { DEFAULT_TUNING, << <<"D","b">>, <<"b">> >>, << <<"A","#">> >>, << <<"C">>, <<"H">> >> }
SetNames == { <<"C">>, <<"C","#">>, <<"D","b">>, <<"E">>, <<"B","b">> }
RunRoots == { <<"C">>, <<"D">>, <<"E">>, <<"D","b">>, <<"c","#">>, <<" ","e"," ">>, <<"H">>, <<>> }
RunTexts == {join(toks, <<" ">>) : toks \in ListsUpTo(NoteTokens, 2)}

Calls ==
    [fn : {"normalize_note"}, args : [note : NoteInputs, use_flats : BOOLEAN]]
    \cup [fn : {"parse_notes_text"}, args : [text : NoteTexts, use_flats : BOOLEAN]]
    \cup [fn : {"parse_degree_token"}, args : [token : DegInputs]]
    \cup [fn : {"degrees_to_notes_text"},
          args : [text : DegTexts, root : DegRoots, use_flats : BOOLEAN]]
    \cup [fn : {"generate_scale"},
          args : [root : Roots, mode : Modes, scale_modes : {SCALE_MODES},
                  use_flats : BOOLEAN]]
    \cup [fn : {"generate_scale"},
          args : [root : DegRoots, mode : {"custom"}, scale_modes : StepTables,
                  use_flats : BOOLEAN]]
    \cup [fn : {"plot_generate_scale"},
          args : [root : Roots, mode : DOMAIN plot_SCALE_MODES \cup {"pentatonic", "dorian"},
                  use_flats : BOOLEAN]]
    \cup [fn : {"get_inlay_frets"}, args : [num_frets : (-MaxFretArg)..MaxFretArg]]
    \cup [fn : {"FretboardRenderer"},
          args : [num_frets : (-MaxFretArg)..MaxFretArg, tuning : {<<>>} \cup Tunings]]
    \cup [fn : {"main_num_frets"}, args : [frets : (-MaxFretArg)..MaxFretArg]]
    \cup [fn : {"draw"},
          args : [tuning : Tunings, num_frets : 1..MaxFrets,
                  scale_notes : ListsUpTo(SetNames, 2), root : SetNames \cup {<<>>},
                  use_flats : BOOLEAN]]
    \cup [fn : {"run_notes"},
          args : [tuning : {<<r>> \o DEFAULT_TUNING : r \in RunRoots}, num_frets : {1, MaxFrets},
                  notes_text : RunTexts, root_text : RunRoots, use_flats : BOOLEAN]]

\* the window after FretboardApp.__init__: status "Ready", the empty
\* fretboard drawn
Constructed ==
    /\ widgets = INITIAL_WIDGETS
    /\ renderer = INITIAL_RENDERER
    /\ plot = on_clear(INITIAL_WIDGETS, INITIAL_RENDERER)
    /\ status = STATUS_READY

Init ==
    /\ pc = "call"
    /\ ret = NoRet
    /\ \E c \in Calls : fn = c.fn /\ args = c.args
    /\ Constructed

Return(r) ==
    /\ pc' = "done"
    /\ ret' = r
    /\ UNCHANGED <<fn, args, widgets, renderer, plot, status>>

NormalizeNote ==
    /\ pc = "call" /\ fn = "normalize_note"
    /\ Return(normalize_note(args.note, args.use_flats))

ParseNotesText ==
    /\ pc = "call" /\ fn = "parse_notes_text"
    /\ Return(parse_notes_text(args.text, args.use_flats))

ParseDegreeToken ==
    /\ pc = "call" /\ fn = "parse_degree_token"
    /\ Return(parse_degree_token(args.token))

DegreesToNotesText ==
    /\ pc = "call" /\ fn = "degrees_to_notes_text"
    /\ Return(degrees_to_notes_text(args.text, args.root, args.use_flats))

GenerateScale ==
    /\ pc = "call" /\ fn = "generate_scale"
    /\ Return(generate_scale(args.root, args.mode, args.scale_modes, args.use_flats))

PlotGenerateScale ==
    /\ pc = "call" /\ fn = "plot_generate_scale"
    /\ Return(plot_generate_scale(args.root, args.mode, args.use_flats))

GetInlayFrets ==
    /\ pc = "call" /\ fn = "get_inlay_frets"
    /\ Return(Ok(get_inlay_frets(args.num_frets)))

NewRenderer ==
    /\ pc = "call" /\ fn = "FretboardRenderer"
    /\ Return(Ok(FretboardRenderer(args.num_frets, args.tuning)))

MainNumFrets ==
    /\ pc = "call" /\ fn = "main_num_frets"
    /\ Return(Ok(main_num_frets(args.frets)))

Draw ==
    /\ pc = "call" /\ fn = "draw"
    /\ Return(draw(args.tuning, args.num_frets, args.scale_notes, args.root, args.use_flats))

RunNotes ==
    /\ pc = "call" /\ fn = "run_notes"
    /\ Return(run_notes(args.tuning, args.num_frets, args.notes_text, args.root_text,
                        args.use_flats))

Next ==
    \/ NormalizeNote
    \/ ParseNotesText
    \/ ParseDegreeToken
    \/ DegreesToNotesText
    \/ GenerateScale
    \/ PlotGenerateScale
    \/ GetInlayFrets
    \/ NewRenderer
    \/ MainNumFrets
    \/ Draw
    \/ RunNotes

Spec == Init /\ [][Next]_vars

(***************************************************************************)
(* The window: one action per signal handler                               *)
(***************************************************************************)
\* what the user types or selects, besides what the window starts with
GuiRootTexts == { <<"D", "b">>, <<"H">>, <<" ">> }
GuiNotesTexts == { <<"C", " ", "E">>, <<"C", " ", "X">> }
GuiDegreeTexts == { <<"1", " ", "b", "3">>, <<"1", " ", "q">> }
GuiScales == {"aeolian_natural_minor", "blues"}
GuiFrets == {0, FRETS_SPIN_MIN, FRETS_SPIN_MAX, 25}

InitGui ==
    /\ pc = "gui"
    /\ fn = "FretboardApp"
    /\ args = <<>>
    /\ ret = NoRet
    /\ Constructed

Idle == pc = "gui" /\ UNCHANGED <<pc, fn, args, ret>>

\* mode_combo: _on_mode_changed only switches the input page
SelectMode ==
    /\ Idle
    /\ \E v \in {"Notes", "Degrees", "Scale"} \ {widgets.mode} :
            widgets' = [widgets EXCEPT !.mode = v]
    /\ UNCHANGED <<renderer, plot, status>>

EditRoot ==
    /\ Idle
    /\ \E t \in GuiRootTexts \ {widgets.root} : widgets' = [widgets EXCEPT !.root = t]
    /\ UNCHANGED <<renderer, plot, status>>

EditNotes ==
    /\ Idle
    /\ \E t \in GuiNotesTexts \ {widgets.notes} : widgets' = [widgets EXCEPT !.notes = t]
    /\ UNCHANGED <<renderer, plot, status>>

EditDegrees ==
    /\ Idle
    /\ \E t \in GuiDegreeTexts \ {widgets.degrees} :
            widgets' = [widgets EXCEPT !.degrees = t]
    /\ UNCHANGED <<renderer, plot, status>>

SelectScale ==
    /\ Idle
    /\ \E k \in GuiScales \ {widgets.scale} : widgets' = [widgets EXCEPT !.scale = k]
    /\ UNCHANGED <<renderer, plot, status>>

\* use_flats_cb.stateChanged -> _sync_root_choices
ToggleFlats ==
    /\ Idle
    /\ widgets' = [widgets EXCEPT !.use_flats = ~widgets.use_flats,
                                  !.root = sync_root_choices(widgets.root)]
    /\ UNCHANGED <<renderer, plot, status>>

\* frets_spin.valueChanged -> _on_frets_changed: renderer.num_frets = v,
\* then on_clear()
OnFretsChanged ==
    /\ Idle
    /\ \E v \in {frets_spin_value(q) : q \in GuiFrets} \ {widgets.frets} :
            /\ widgets' = [widgets EXCEPT !.frets = v]
            /\ renderer' = [renderer EXCEPT !.num_frets = v]
            /\ plot' = on_clear(widgets', renderer')
    /\ status' = STATUS_CLEARED

OnRun ==
    /\ Idle
    /\ LET r == on_run(widgets, renderer, plot)
       IN  plot' = r.plot /\ status' = r.status
    /\ UNCHANGED <<widgets, renderer>>

OnClear ==
    /\ Idle
    /\ plot' = on_clear(widgets, renderer)
    /\ status' = STATUS_CLEARED
    /\ UNCHANGED <<widgets, renderer>>

NextGui ==
    \/ SelectMode
    \/ EditRoot
    \/ EditNotes
    \/ EditDegrees
    \/ SelectScale
    \/ ToggleFlats
    \/ OnFretsChanged
    \/ OnRun
    \/ OnClear

SpecGui == InitGui /\ [][NextGui]_vars

(***************************************************************************)
(* Every place where the program fixes a fret count: the renderer's        *)
(* constructor, the command line, the window                               *)
(***************************************************************************)
InitFrets == InitGui \/ (Init /\ fn \in {"FretboardRenderer", "main_num_frets"})

NextFrets ==
    \/ NewRenderer
    \/ MainNumFrets
    \/ NextGui

SpecFrets == InitFrets /\ [][NextFrets]_vars

(***************************************************************************)
(* Properties                                                              *)
(***************************************************************************)
Done(f) == pc = "done" /\ fn = f

\* the elements of s at their first occurrence, in order
FirstOccurrences(s) ==
    LET keep == {i \in DOMAIN s : \A j \in 1..(i - 1) : s[j] # s[i]}
    IN  [k \in 1..Cardinality(keep) |->
            s[CHOOSE i \in keep : Cardinality({j \in keep : j <= i}) = k]]
NoRepeats(s) == \A i, j \in DOMAIN s : s[i] = s[j] => i = j

\* the pitch-class index 0..11 of a canonical name, sharp or flat
NoteIndex(name) ==
    IF name \in DOMAIN NOTE_TO_INDEX_SHARPS
    THEN NOTE_TO_INDEX_SHARPS[name] ELSE NOTE_TO_INDEX_FLATS[name]
Indices(names) == [i \in 1..Len(names) |-> NoteIndex(names[i])]
Chromatic(use_flats) == IF use_flats THEN CHROMATIC_FLATS ELSE CHROMATIC_SHARPS

\* the sounding pitch class of a letter with at most one accidental
NaturalIndex == ("C" :> 0) @@ ("D" :> 2) @@ ("E" :> 4) @@ ("F" :> 5) @@ ("G" :> 7) @@
                ("A" :> 9) @@ ("B" :> 11)
WellSpelled(n) ==
    /\ Len(n) \in {1, 2}
    /\ n[1] \in DOMAIN NaturalIndex
    /\ Len(n) = 2 => n[2] \in {"#", "b", "B"}
SoundingClass(n) ==
    (NaturalIndex[n[1]] + (IF Len(n) = 1 THEN 0 ELSE IF n[2] = "#" THEN 1 ELSE -1)) % 12

\* C1: parse_notes_text returns each pitch class once, in order of first
\* appearance of the normalized tokens.
C1_NotesDeduplicated ==
    (Done("parse_notes_text") /\ ret.ok) =>
        LET raw == raw_tokens(args.text)
            names == [i \in 1..Len(raw) |-> normalize_note(raw[i], args.use_flats).val]
        IN  NoRepeats(ret.val) /\ ret.val = FirstOccurrences(names)

\* C2: normalize_note raises whenever the trimmed note has anything after the
\* letter and its single optional accidental, or a letter outside A-G.
C2_TrailingCharactersRejected ==
    Done("normalize_note") =>
        LET t == upper(strip(args.note))
        IN  (t # <<>> /\ (\/ t[1] \notin DOMAIN NaturalIndex
                          \/ Len(t) > 2
                          \/ (Len(t) = 2 /\ t[2] \notin {"#", "B"})))
            => ~ret.ok

\* C3: normalize_note is idempotent: normalizing an accepted note's result
\* again, with the same flag, succeeds and gives the same result.
C3_NormalizeIdempotent ==
    (Done("normalize_note") /\ ret.ok) => normalize_note(ret.val, args.use_flats) = ret
C3_Witness ==
    /\ Done("normalize_note") /\ ret.ok
    /\ args.note = <<"c", "#">> /\ args.use_flats /\ ret.val = <<"D", "b">>

\* C4: every accepted spelling yields one of the 12 canonical names of the
\* chosen spelling, and a letter with one accidental yields its sounding
\* pitch class, so that C#/Db, D#/Eb, F#/Gb, G#/Ab, A#/Bb agree and Fb, Cb,
\* B#, E# are E, B, C, F.
C4_EnharmonicSameIndex ==
    (Done("normalize_note") /\ ret.ok) =>
        /\ ret.val \in Range(Chromatic(args.use_flats))
        /\ LET t == strip(args.note)
           IN  WellSpelled(upper(t)) => NoteIndex(ret.val) = SoundingClass(upper(t))
C4_Witness ==
    /\ Done("normalize_note") /\ ~args.use_flats
    /\ args.note = <<"F", "b">> /\ ret.ok /\ ret.val = <<"E">>

\* C5: use_flats changes only the spelling of the black-key classes: the same
\* call with the flag flipped is accepted iff this one is, yields the same
\* pitch-class indices, spells the natural notes identically, and each result
\* is spelled from the chromatic list its flag selects.
FlagFlipped ==
    CASE fn = "normalize_note" -> normalize_note(args.note, ~args.use_flats)
      [] fn = "degrees_to_notes_text" ->
            degrees_to_notes_text(args.text, args.root, ~args.use_flats)
      [] fn = "generate_scale" ->
            generate_scale(args.root, args.mode, args.scale_modes, ~args.use_flats)
NamesOf(r) == IF fn = "normalize_note" THEN <<r.val>> ELSE r.val
C5_FlagChangesOnlySpelling ==
    (pc = "done" /\ fn \in {"normalize_note", "degrees_to_notes_text", "generate_scale"}) =>
        LET o == FlagFlipped IN
        /\ o.ok = ret.ok
        /\ ret.ok =>
            LET mine == NamesOf(ret)
                other == NamesOf(o)
            IN  /\ Indices(mine) = Indices(other)
                /\ \A i \in DOMAIN mine :
                      /\ mine[i] \in Range(Chromatic(args.use_flats))
                      /\ other[i] \in Range(Chromatic(~args.use_flats))
                      /\ (Len(mine[i]) = 1 \/ Len(other[i]) = 1) => mine[i] = other[i]
C5_Witness ==
    /\ Done("generate_scale") /\ args.use_flats /\ ret.ok
    /\ args.root = <<"C", "#">> /\ args.mode = "ionian_major"
    /\ ret.val[1] = <<"D", "b">> /\ ret.val[2] = <<"E", "b">> /\ ret.val[3] = <<"F">>

\* the grammar of a degree token: accidentals, digits, accidentals
AccRun(s) == \A i \in DOMAIN s : s[i] \in {"b", "#", "x"}
DigitRun(s) == s # <<>> /\ \A i \in DOMAIN s : s[i] \in Range(Digits)
Splits(t) ==
    {sp \in (0..Len(t)) \X (0..Len(t)) :
        /\ sp[1] < sp[2]
        /\ AccRun(SubSeq(t, 1, sp[1]))
        /\ DigitRun(SubSeq(t, sp[1] + 1, sp[2]))
        /\ AccRun(SubSeq(t, sp[2] + 1, Len(t)))}
Count(t, ch) == Cardinality({i \in DOMAIN t : t[i] = ch})
RECURSIVE Decimal(_, _)
Decimal(s, acc) ==
    IF s = <<>> THEN acc
    ELSE Decimal(Tail(s), 10 * acc + ((CHOOSE d \in 0..9 : Digits[d + 1] = Head(s))))
IsRootWord(t) == lower(t) \in { <<"r">>, <<"r", "o", "o", "t">> }

\* C6: a token (accidentals)(digits)(accidentals) parses to the value of the
\* digits and the shift #'s + 2 x's - b's; r and root parse to (1, 0).
C6_DegreeValueAndShift ==
    Done("parse_degree_token") =>
        LET t == args.token IN
        /\ \A sp \in Splits(t) :
              ret = Ok(<< Decimal(SubSeq(t, sp[1] + 1, sp[2]), 0),
                          Count(t, "#") + 2 * Count(t, "x") - Count(t, "b") >>)
        /\ IsRootWord(t) => ret = Ok(<<1, 0>>)
        /\ t = <<"b", "3">> => ret = Ok(<<3, -1>>)
        /\ t = <<"x", "4">> => ret = Ok(<<4, 2>>)
        /\ t = <<"R">> => ret = Ok(<<1, 0>>)
        /\ t = <<"b", "3", "#">> => ret = Ok(<<3, 0>>)
C6_Witness ==
    /\ Done("parse_degree_token") /\ args.token = <<"x", "4">> /\ ret = Ok(<<4, 2>>)

\* C7 as claimed: the token 3b# is rejected.
C7_MixedSuffixRejected ==
    (Done("parse_degree_token") /\ args.token = <<"3", "b", "#">>) => ~ret.ok
\* C7 amended: the token 3b# is accepted and parses to degree 3, shift 0.
C7_MixedSuffixAccepted ==
    (Done("parse_degree_token") /\ args.token = <<"3", "b", "#">>) => ret = Ok(<<3, 0>>)
C7_Witness ==
    /\ Done("parse_degree_token") /\ args.token = <<"3", "b", "#">> /\ ret.ok

\* C8 as claimed: parse_degree_token raises exactly when the trimmed token
\* is not r/root and is not (run of b/#/x)(digits)(run of b/#/x).
C8_RejectsExactlyOffGrammar ==
    Done("parse_degree_token") =>
        LET t == strip(args.token)
        IN  ~ret.ok <=> ~(IsRootWord(t) \/ Splits(t) # {})
\* C8 amended: the same, with the Unicode flat and sharp signs of the token
\* read as b and #.
SignsAsLetters(t) ==
    [i \in 1..Len(t) |->
        IF t[i] = "flat_sign" THEN "b" ELSE IF t[i] = "sharp_sign" THEN "#" ELSE t[i]]
C8_RejectsExactlyOffGrammarAfterSigns ==
    Done("parse_degree_token") =>
        LET t == SignsAsLetters(strip(args.token))
        IN  /\ ~ret.ok <=> ~(IsRootWord(t) \/ Splits(t) # {})
            /\ ~ret.ok => ret.err = (IF t = <<>> THEN "Empty degree token"
                                                 ELSE "Invalid degree token")
C8_Witness ==
    /\ Done("parse_degree_token")
    /\ args.token = <<"sharp_sign", "3", "flat_sign">> /\ ret = Ok(<<3, 0>>)

\* C9: every accepted degree token has a degree number >= 1, and a text with
\* the token 0 is not resolved.
C9_DegreeAtLeastOne ==
    /\ (Done("parse_degree_token") /\ ret.ok) => ret.val[1] >= 1
    /\ (Done("degrees_to_notes_text") /\ <<"0">> \in Range(raw_tokens(args.text))) => ~ret.ok

\* C10: degrees_to_notes_text returns, deduplicated in first-occurrence
\* order, the classes (rootIndex + M[((d-1) mod 7)+1] + shift) mod 12, each
\* in 0..11; 1 b3 5 on C with sharps is C D# G.
MajorOffsets == <<0, 2, 4, 5, 7, 9, 11>>
C10_DegreesResolve ==
    (Done("degrees_to_notes_text") /\ ret.ok) =>
        LET raw == raw_tokens(args.text)
            rootIndex == SoundingClass(upper(strip(args.root)))
            class(tok) ==
                LET p == parse_degree_token(tok).val
                IN  (rootIndex + MajorOffsets[((p[1] - 1) % 7) + 1] + p[2]) % 12
            classes == [i \in 1..Len(raw) |-> class(raw[i])]
        IN  /\ raw # <<>>
            /\ \A i \in DOMAIN ret.val : ret.val[i] \in Range(Chromatic(args.use_flats))
            /\ Indices(ret.val) = FirstOccurrences(classes)
            /\ \A i \in DOMAIN classes : classes[i] \in 0..11
            /\ (args.text = <<"1", " ", "b", "3", " ", "5">> /\ args.root = <<"C">>
                    /\ ~args.use_flats)
               => ret.val = << <<"C">>, <<"D", "#">>, <<"G">> >>
C10_Witness ==
    /\ Done("degrees_to_notes_text") /\ ~args.use_flats
    /\ args.text = <<"b", "1", " ", "9", " ", "2">> /\ args.root = <<"D", "b">>
    /\ ret = Ok(<< <<"C">>, <<"D", "#">> >>)

\* C11: degrees_to_notes_text raises the empty-input error whenever the text
\* holds no token (only whitespace and commas), whatever the root, valid or
\* not, and returns no list.
C11_EmptyDegreesRejected ==
    (Done("degrees_to_notes_text") /\ \A i \in DOMAIN args.text : args.text[i] \in {" ", ","})
        => ret = Err("No degree tokens provided")
C11_Witness ==
    /\ Done("degrees_to_notes_text") /\ args.text = <<",", " ", ",">> /\ args.root = <<"H">>
    /\ ~ret.ok /\ ret.err = "No degree tokens provided" /\ ret.val = <<>>

\* the position of the earliest token of raw that P rejects, 0 if none
FirstBad(raw, P(_)) ==
    LET bad == {i \in DOMAIN raw : ~P(raw[i])}
    IN  IF bad = {} THEN 0 ELSE CHOOSE i \in bad : \A j \in bad : i <= j
NoteTokenValid(tok) == normalize_note(tok, FALSE).ok
DegreeTokenValid(tok) == parse_degree_token(tok).ok

\* C12 as claimed: when some token is invalid, parse_notes_text and
\* degrees_to_notes_text raise the error of the earliest invalid token and
\* return no list.
C12_FirstInvalidTokenError ==
    /\ Done("parse_notes_text") =>
          LET raw == raw_tokens(args.text)
              b == FirstBad(raw, NoteTokenValid)
          IN  b # 0 => ret = normalize_note(raw[b], args.use_flats) /\ ret.val = <<>>
    /\ Done("degrees_to_notes_text") =>
          LET raw == raw_tokens(args.text)
              b == FirstBad(raw, DegreeTokenValid)
          IN  b # 0 => ret = parse_degree_token(raw[b]) /\ ret.val = <<>>
\* C12 amended: the same, except that degrees_to_notes_text normalizes the
\* root before any token, so an invalid root's error is raised instead.
C12_FirstInvalidTokenErrorAfterRoot ==
    /\ Done("parse_notes_text") =>
          LET raw == raw_tokens(args.text)
              b == FirstBad(raw, NoteTokenValid)
          IN  b # 0 => ret = normalize_note(raw[b], args.use_flats) /\ ret.val = <<>>
    /\ Done("degrees_to_notes_text") =>
          LET raw == raw_tokens(args.text)
              b == FirstBad(raw, DegreeTokenValid)
              root_n == normalize_note(args.root, args.use_flats)
          IN  b # 0 => /\ ~ret.ok /\ ret.val = <<>>
                       /\ ret = IF root_n.ok THEN parse_degree_token(raw[b]) ELSE root_n
C12_Witness ==
    /\ Done("degrees_to_notes_text") /\ args.root = <<"C">>
    /\ args.text = <<"1", " ", "q", " ", "3", "q">>
    /\ ret = ErrAbout("Invalid degree token", <<"q">>)

\* C13: generate_scale raises the unknown-scale error for every name that is
\* not a key of the table it is given, whatever the root, and returns no notes.
C13_UnknownScaleRejected ==
    (Done("generate_scale") /\ args.mode \notin DOMAIN args.scale_modes)
        => ret = ErrAbout("Unsupported mode", args.mode)
C13_Witness ==
    /\ Done("generate_scale") /\ args.root = <<"H">> /\ args.mode = "nonexistent"
    /\ ~ret.ok /\ ret.err = "Unsupported mode" /\ ret.val = <<>>

\* the sum of the first k steps
RECURSIVE PrefixSum(_, _)
PrefixSum(steps, k) == IF k = 0 THEN 0 ELSE PrefixSum(steps, k - 1) + steps[k]

\* C14: generate_scale returns the deduplicated prefix sums mod 12 of the
\* steps from the root, all N+1 of them unless N is 5, 6, 7, 8 or 12, when
\* the last is dropped; the output starts with the root and repeats no class.
C14_ScaleIsDedupedPrefixSums ==
    (Done("generate_scale") /\ ret.ok) =>
        LET steps == args.scale_modes[args.mode]
            N == Len(steps)
            rootIndex == SoundingClass(upper(strip(args.root)))
            kept == IF N \in {5, 6, 7, 8, 12} THEN N ELSE N + 1
            tones == [k \in 1..kept |-> (rootIndex + PrefixSum(steps, k - 1)) % 12]
        IN  /\ Indices(ret.val) = FirstOccurrences(tones)
            /\ NoRepeats(Indices(ret.val))
            /\ ret.val # <<>> /\ NoteIndex(ret.val[1]) = rootIndex
            /\ \A i \in DOMAIN ret.val : ret.val[i] \in Range(Chromatic(args.use_flats))
C14_Witness ==
    /\ Done("generate_scale") /\ args.mode = "custom" /\ ~args.use_flats
    /\ args.scale_modes["custom"] = <<6, 3, 3, 6>> /\ args.root = <<"C">>
    /\ ret = Ok(<< <<"C">>, <<"F", "#">>, <<"A">> >>)

\* C15: for every root and every scale of the shipped table the steps are
\* positive and sum to 12, their count is 5, 6, 7, 8 or 12, the dropped tone
\* is the root, and the output has one class per step, all distinct, each
\* one step above the one before (whole_tone: 6 tones 2 apart;
\* pentatonic_major on C: C D E G A).
C15_ShippedScalesCloseAtOctave ==
    (Done("generate_scale") /\ ret.ok /\ args.scale_modes = SCALE_MODES) =>
        LET steps == SCALE_MODES[args.mode]
            N == Len(steps)
            walked == walk_steps(steps, NoteIndex(ret.val[1]), <<ret.val[1]>>)
        IN  /\ \A i \in DOMAIN steps : steps[i] > 0
            /\ PrefixSum(steps, N) = 12
            /\ N \in {5, 6, 7, 8, 12}
            /\ Indices(walked)[N + 1] = NoteIndex(ret.val[1])
            /\ Len(ret.val) = N
            /\ NoRepeats(Indices(ret.val))
            /\ \A i \in 1..(N - 1) :
                  (NoteIndex(ret.val[i + 1]) - NoteIndex(ret.val[i])) % 12 = steps[i]
            /\ args.mode = "whole_tone" =>
                  /\ Len(ret.val) = 6
                  /\ \A i \in 1..5 :
                        (NoteIndex(ret.val[i + 1]) - NoteIndex(ret.val[i])) % 12 = 2
            /\ (args.mode = "pentatonic_major" /\ args.root = <<"C">>) =>
                  ret.val = << <<"C">>, <<"D">>, <<"E">>, <<"G">>, <<"A">> >>
C15_Witness ==
    /\ Done("generate_scale") /\ args.scale_modes = SCALE_MODES
    /\ args.mode = "blues" /\ args.root = <<"A">> /\ args.use_flats
    /\ ret = Ok(<< <<"A">>, <<"C">>, <<"D">>, <<"E", "b">>, <<"E">>, <<"G">> >>)

\* the markers drawn at string s, fret f
MarkersAt(s, f) == {mk \in ret.val.markers : mk.string = s /\ mk.fret = f}

\* C16: draw puts a note marker at (string s, fret f), 0 <= f <= num_frets,
\* iff the sounded class (tuning[s] + f) mod 12 is the class of a note of the
\* set, whichever way the set is spelled, and the marker is a root marker iff
\* that class is the root's.
C16_MarkersByPitchClass ==
    (Done("draw") /\ ret.ok) =>
        LET root == IF args.root # <<>> THEN args.root
                    ELSE IF args.scale_notes # <<>> THEN args.scale_notes[1] ELSE <<"C">>
            classes == {NoteIndex(n) : n \in Range(args.scale_notes)}
            sounded(s, f) == (NoteIndex(ret.val.labels[s + 1]) + f) % 12
        IN  \A s \in 0..(Len(args.tuning) - 1), f \in 0..args.num_frets :
                /\ MarkersAt(s, f) # {} <=> sounded(s, f) \in classes
                /\ \A mk \in MarkersAt(s, f) : mk.is_root <=> sounded(s, f) = NoteIndex(root)

\* the classes the Notes text resolves to
ResolvedClasses(text, use_flats) ==
    LET t == strip(text)
    IN  IF t = <<>> THEN <<>> ELSE Indices(parse_notes_text(t, use_flats).val)

\* C17 as claimed: for a root r and a Notes text with at least one token
\* whose resolved classes are all distinct, drawing over a tuning whose
\* string 0 is r marks string 0, fret 0 as a root position.
C17_OpenRootStringMarked ==
    (Done("run_notes") /\ ret.ok /\ args.tuning[1] = args.root_text
        /\ ResolvedClasses(args.notes_text, args.use_flats) # <<>>
        /\ NoRepeats(ResolvedClasses(args.notes_text, args.use_flats)))
    => \E mk \in MarkersAt(0, 0) : mk.is_root
\* C17 amended: the same when the resolved classes include the class of r.
C17_OpenRootStringMarkedIfInSet ==
    (Done("run_notes") /\ ret.ok /\ args.tuning[1] = args.root_text
        /\ NoRepeats(ResolvedClasses(args.notes_text, args.use_flats))
        /\ NoteIndex(normalize_note(args.root_text, args.use_flats).val)
              \in Range(ResolvedClasses(args.notes_text, args.use_flats)))
    => /\ \E mk \in MarkersAt(0, 0) : mk.is_root
       /\ \A mk \in MarkersAt(0, 0) : mk.is_root
C17_Witness ==
    /\ Done("run_notes") /\ ret.ok /\ args.use_flats
    /\ args.root_text = <<"c", "#">> /\ args.tuning[1] = <<"c", "#">>
    /\ args.notes_text = <<"E", " ", "D", "b">>
    /\ [string |-> 0, fret |-> 0, name |-> <<"D", "b">>, is_root |-> TRUE] \in ret.val.markers

\* C18: get_inlay_frets returns, ascending and without repetition, exactly
\* the members of {3,5,7,9,12,15,17,19,21,24} that are <= num_frets; nothing
\* below 3, all of them at 24, 3 5 7 9 at 11.
InlaySet == {3, 5, 7, 9, 12, 15, 17, 19, 21, 24}
C18_InlayFrets ==
    Done("get_inlay_frets") =>
        /\ Range(ret.val) = {x \in InlaySet : x <= args.num_frets}
        /\ \A i, j \in DOMAIN ret.val : i < j => ret.val[i] < ret.val[j]
        /\ args.num_frets < 3 => ret.val = <<>>
        /\ args.num_frets = 24 => ret.val = <<3, 5, 7, 9, 12, 15, 17, 19, 21, 24>>
        /\ args.num_frets = 11 => ret.val = <<3, 5, 7, 9>>
C18_Witness ==
    /\ Done("get_inlay_frets") /\ args.num_frets = 12 /\ ret.val = <<3, 5, 7, 9, 12>>

\* C20: in the window, a Run whose _compute_notes raises shows "Error: e"
\* in the status bar, e being the error raised, and leaves the plot as it
\* was; no step that ends with an error in the status bar changes the plot,
\* and the canvas never shows cleared axes without a drawing.
C20_FailedRunKeepsPlot ==
    /\ [](pc = "gui" => plot # BLANK_AXES /\ plot.num_frets = renderer.num_frets)
    /\ [][ /\ status'.kind = "Error" => plot' = plot
           /\ (widgets' = widgets /\ OnRun /\ ~compute_notes(widgets).ok) =>
                /\ plot' = plot
                /\ status' = Message("Error", 0, <<>>, compute_notes(widgets)) ]_vars
\* a Run has failed on an invalid token while the scale of an earlier Run
\* is still shown
C20_Witness ==
    /\ pc = "gui" /\ status.kind = "Error" /\ status.error = "Unsupported note"
    /\ status.about = <<"X">>
    /\ widgets.mode = "Notes" /\ widgets.notes = <<"C", " ", "X">>
    /\ plot.title = <<"Notes", << <<"C">>, <<"E">> >>, <<"C">> >>
    /\ plot.markers # {}

\* C21: the fret count is always within 1..24: the constructor of
\* FretboardRenderer clamps what it is given (and keeps a count already in
\* range), main clamps --frets the same way, and in the window, after any
\* fret-spinner changes, Runs and Clears, renderer.num_frets is in 1..24 and
\* is the count of the drawing on the canvas.
C21_FretCountInRange ==
    /\ Done("FretboardRenderer") =>
            /\ ret.val.num_frets \in 1..24
            /\ args.num_frets \in 1..24 => ret.val.num_frets = args.num_frets
    /\ Done("main_num_frets") =>
            /\ ret.val \in 1..24
            /\ ret.val = FretboardRenderer(args.frets, <<>>).num_frets
    /\ pc = "gui" =>
            /\ renderer.num_frets \in 1..24
            /\ plot.num_frets = renderer.num_frets
            /\ widgets.frets = renderer.num_frets
\* a scale is plotted on one fret after the spinner was turned down
C21_Witness ==
    /\ pc = "gui" /\ status.kind = "Plotted"
    /\ widgets.frets = 1 /\ renderer.num_frets = 1 /\ plot.num_frets = 1
    /\ plot.markers # {}

\* C22: for every root, either use_flats and every scale name of the
\* command line's table, its generate_scale returns what the core's
\* generate_scale returns for the same step pattern (the same notes, or the
\* same error for an invalid root); the last tone, the octave of the root,
\* is dropped, so there is one note per step and no pitch class twice.
C22_CliScaleIsCoreScale ==
    (Done("plot_generate_scale") /\ args.mode \in DOMAIN plot_SCALE_MODES) =>
        /\ ret = generate_scale(args.root, args.mode, plot_SCALE_MODES, args.use_flats)
        /\ ret.ok => /\ Len(ret.val) = Len(plot_SCALE_MODES[args.mode])
                     /\ NoRepeats(Indices(ret.val))

====
